---------------------------- MODULE Spec2Model ----------------------------
(***************************************************************************)
(* A model of the procedural city generator (src/main.py).                 *)
(*                                                                         *)
(* Strings are sequences of one-character strings.  Coordinates of the     *)
(* street turtle are the exact lattice values: every heading is a multiple *)
(* of 90 degrees, so cos and sin are taken as -1, 0 or 1.  The canvases of *)
(* the model are chosen so that no lattice point a move ends on lies on a  *)
(* canvas edge: the floating-point residue of cos(90 deg), below 1e-15,    *)
(* then decides no comparison (on the canvases of at most one cell every   *)
(* move of the city's street string ends 7 units or more outside).         *)
(* Building positions are exact fractions, taken before the random offset  *)
(* is added.  The randomly sampled width, radius, height and category of   *)
(* an entity take no part in any control flow and are not represented; of  *)
(* a River's point list the last point and the length are kept.            *)
(***************************************************************************)
EXTENDS Integers, Sequences, FiniteSets, TLC

VARIABLES
    width,        \* canvas width the generators were constructed with
    height,       \* canvas height
    axiom,        \* StreetGenerator.l_system.axiom / LSystem.axiom
    rules,        \* LSystem.rules: a function from symbols to strings
    sg_streets,   \* StreetGenerator.streets
    vg_districts, \* VoronoiGenerator.districts
    bg_buildings, \* BuildingGenerator.buildings
    city,         \* CityGenerator's streets, districts, rivers, mountains, buildings
    pc,           \* where the running call stands ("idle": no call is running)
    rv,           \* the locals of a running generate_rivers call
    args,         \* the arguments of the latest call
    raised,       \* the exception the latest call ended with ("none")
    ran,          \* the component generators the latest generate_city call has run
    op,           \* the operation called last ("none" after construction)
    iterations,   \* argument of the latest generate / generate_streets call
    l_string,     \* the string returned by the latest LSystem.generate call
    prior,        \* StreetGenerator.streets before the latest generate_streets call
    vor,          \* the diagram the latest Voronoi(points) call returned
    made,         \* the entities the latest call of each generator created
    given,        \* the arguments a caller holds for generate_buildings / generate_city
    calls         \* number of generate_streets calls made so far

vars == <<width, height, axiom, rules, sg_streets, vg_districts, bg_buildings,
          city, pc, rv, args, raised, ran, op, iterations, l_string, prior,
          vor, made, given, calls>>

\* The parts of the state an operation on one object leaves alone.
canvasVars == <<width, height>>

lsystemVars == <<axiom, rules>>

cityVars == <<city, ran>>

riverVars == <<rv>>

NoArgs == [none |-> TRUE]

NoVor == [vertices |-> <<>>, regions |-> <<>>, point_region |-> <<>>]

\* No generate_rivers call is running.  While one runs: left counts the rivers
\* still to make, rivers is its list, and during a walk cur and npoints stand
\* for river_points (its last point and its length), steps counts the steps
\* still to take and moved the steps that changed position.
NoRivers ==
    [left |-> 0, rivers |-> <<>>, walking |-> FALSE, cur |-> <<0, 0>>,
     npoints |-> 0, steps |-> 0, moved |-> 0, caller |-> "none"]

NothingMade ==
    [streets |-> <<>>, districts |-> <<>>, buildings |-> <<>>, rivers |-> <<>>]

\* self.streets = []; self.districts = []; ... (CityGenerator.__init__)
EmptyCity ==
    [streets |-> <<>>, districts |-> <<>>, rivers |-> <<>>, mountains |-> <<>>,
     buildings |-> <<>>]

\* The state of freshly constructed generators, no call made yet.
Constructed ==
    /\ sg_streets = <<>>
    /\ vg_districts = <<>>
    /\ bg_buildings = <<>>
    /\ city = EmptyCity
    /\ pc = "idle"
    /\ rv = NoRivers
    /\ args = NoArgs
    /\ raised = "none"
    /\ ran = {}
    /\ op = "none"
    /\ iterations = 0
    /\ l_string = <<>>
    /\ prior = <<>>
    /\ vor = NoVor
    /\ made = NothingMade
    /\ calls = 0

NothingGiven == [streets |-> <<>>, districts |-> <<>>]

---------------------------------------------------------------------------
(* Bounds of the model *)

MaxIter == 2
MaxAxiomLen == 2
MaxRuleLen == 2
MaxCalls == 2
MaxPoints == 2
MaxRegions == 2
MaxStreets == 2
MaxDistricts == 1
MaxRivers == 1

---------------------------------------------------------------------------
(* Strings *)

RECURSIVE StringsUpTo(_, _)
StringsUpTo(alphabet, n) ==
    IF n <= 0 THEN {<<>>}
    ELSE LET shorter == StringsUpTo(alphabet, n - 1)
         IN  shorter \cup {Append(s, c) : s \in shorter, c \in alphabet}

Max2(a, b) == IF a >= b THEN a ELSE b

Min2(a, b) == IF a <= b THEN a ELSE b

RECURSIVE Pow(_, _)
Pow(b, e) == IF e <= 0 THEN 1 ELSE b * Pow(b, e - 1)

---------------------------------------------------------------------------
(* LSystem (src/main.py 47-59) *)

\* A faulty lookup: a symbol without a rule is dropped.
RulesGet_dropUnmapped(rs, char) ==
    IF char \in DOMAIN rs THEN rs[char] ELSE <<>>

\* self.rules.get(char, char)
RulesGet(rs, char) ==
    IF char \in DOMAIN rs THEN rs[char] ELSE <<char>>

\* The strings rules.get(char, char) of the symbols result[lo..hi], concatenated
\* in order.  The range is halved so that the evaluation stays shallow on long
\* strings; the concatenation is the one the loop builds symbol by symbol.
RECURSIVE RewriteRange(_, _, _, _)
RewriteRange(rs, result, lo, hi) ==
    IF lo > hi THEN <<>>
    ELSE IF lo = hi THEN RulesGet(rs, result[lo])
    ELSE LET mid == (lo + hi) \div 2
         IN  RewriteRange(rs, result, lo, mid) \o RewriteRange(rs, result, mid + 1, hi)

\* for char in result: new_result += self.rules.get(char, char)
\* (from symbol i on, new_result holding what the earlier symbols gave)
RewriteFrom(rs, result, i, new_result) ==
    new_result \o RewriteRange(rs, result, i, Len(result))

\* A faulty loop: new_result is not reset, each round starts from the old string.
RECURSIVE LSystemLoop_noReset(_, _, _)
LSystemLoop_noReset(rs, result, remaining) ==
    IF remaining <= 0 THEN result
    ELSE LSystemLoop_noReset(rs, RewriteFrom(rs, result, 1, result), remaining - 1)

\* A faulty loop: one round too many.
RECURSIVE LSystemLoop_extraRound(_, _, _)
LSystemLoop_extraRound(rs, result, remaining) ==
    IF remaining < 0 THEN result
    ELSE LSystemLoop_extraRound(rs, RewriteFrom(rs, result, 1, <<>>), remaining - 1)

\* for _ in range(iterations): ...; result = new_result
RECURSIVE LSystemLoop(_, _, _)
LSystemLoop(rs, result, remaining) ==
    IF remaining <= 0 THEN result
    ELSE LSystemLoop(rs, RewriteFrom(rs, result, 1, <<>>), remaining - 1)

\* LSystem.generate(iterations)
LSystemGenerate(ax, rs, n) == LSystemLoop(rs, ax, n)

\* The rule table StreetGenerator.__init__ installs.
DefaultRules ==
    ("F" :> <<"F", "+", "F", "-", "F", "-", "F", "+", "F">>)
        @@ ("+" :> <<"+">>) @@ ("-" :> <<"-">>)

\* city_config.STREET_L_SYSTEMS["secondary"]["rules"]
SecondaryRules ==
    ("F" :> <<"F", "-", "F", "+", "F", "+", "F", "-", "F">>)
        @@ ("+" :> <<"+">>) @@ ("-" :> <<"-">>)

\* city_config.STREET_L_SYSTEMS["residential"]["rules"]
ResidentialRules ==
    ("F" :> <<"F", "[", "+", "F", "]", "F", "[", "-", "F", "]", "F">>)
        @@ ("+" :> <<"+">>) @@ ("-" :> <<"-">>)
        @@ ("[" :> <<"[">>) @@ ("]" :> <<"]">>)

\* A rule table with no rule.
NoRules == [c \in {} |-> <<>>]

\* The axioms and rule tables an LSystem is constructed with: every axiom of
\* at most MaxAxiomLen symbols, under the program's tables and under every
\* table that gives some of "F", "+" a string of at most MaxRuleLen symbols.
AxiomAlphabet == {"F", "+", "X"}

RuleAlphabet == {"F", "+"}

RuleTables ==
    {DefaultRules, SecondaryRules, ResidentialRules}
        \cup UNION {[d -> StringsUpTo(RuleAlphabet, MaxRuleLen)] : d \in SUBSET RuleAlphabet}

\* LSystem.generate(iterations), called on the constructed LSystem
generate(n) ==
    /\ l_string' = LSystemGenerate(axiom, rules, n)
    /\ iterations' = n
    /\ op' = "generate"
    /\ UNCHANGED <<canvasVars, lsystemVars, sg_streets, vg_districts, bg_buildings,
                   cityVars, pc, riverVars, args, raised, prior, vor, made, given, calls>>

InitLSystem ==
    /\ axiom \in StringsUpTo(AxiomAlphabet, MaxAxiomLen)
    /\ rules \in RuleTables
    /\ width = 100 /\ height = 100
    /\ given = NothingGiven
    /\ Constructed

NextLSystem == \E n \in -1 .. MaxIter : generate(n)

SpecLSystem == InitLSystem /\ [][NextLSystem]_vars

---------------------------------------------------------------------------
(* Properties of LSystem.generate *)

\* The string that replaces the symbol c in one round under the table `rules`.
Image(c) == IF c \in DOMAIN rules THEN rules[c] ELSE <<c>>

\* The string that n rounds make of the string str, symbol by symbol: each
\* symbol is followed through its own n rounds, whatever stands beside it.
RECURSIVE Expand(_, _)
Expand(str, n) ==
    IF str = <<>> THEN <<>>
    ELSE IF n = 0 THEN str
    ELSE Expand(Image(Head(str)), n - 1) \o Expand(Tail(str), n)

\* C4: generate(N), N >= 0, returns the axiom rewritten N times, every symbol
\* with a rule replaced by its rule string and every other symbol copied, each
\* symbol independently of its neighbours; generate(0) returns the axiom.
C4_Generate ==
    (op = "generate" /\ iterations >= 0) =>
        /\ l_string = Expand(axiom, iterations)
        /\ iterations = 0 => l_string = axiom

\* Two rounds over an axiom that mixes a symbol with a rule and one without,
\* under a table whose strings hold a symbol without a rule.
C4_Witness ==
    /\ op = "generate" /\ iterations >= 2
    /\ \E i \in 1 .. Len(axiom) : axiom[i] \notin DOMAIN rules
    /\ \E i \in 1 .. Len(axiom) :
          /\ axiom[i] \in DOMAIN rules
          /\ \E k \in 1 .. Len(rules[axiom[i]]) : rules[axiom[i]][k] \notin DOMAIN rules
    /\ Len(l_string) > Len(axiom)

\* The length of the longest rule string of a table (0 for a table without rules).
LongestRule(rs) ==
    IF DOMAIN rs = {} THEN 0
    ELSE CHOOSE m \in {Len(rs[c]) : c \in DOMAIN rs} :
            \A c \in DOMAIN rs : Len(rs[c]) <= m

\* C8 (as stated): the length of generate(N), N >= 0, is at most
\* (length of the longest rule string)^N times the length of the axiom.
C8_LengthBound ==
    (op = "generate" /\ iterations >= 0 /\ DOMAIN rules # {}) =>
        Len(l_string) <= Pow(LongestRule(rules), iterations) * Len(axiom)

\* C8 (amended): the length of generate(N), N >= 0, is at most
\* max(1, length of the longest rule string)^N times the length of the axiom.
C8_LengthBoundAmended ==
    (op = "generate" /\ iterations >= 0) =>
        Len(l_string) <= Pow(Max2(1, LongestRule(rules)), iterations) * Len(axiom)

\* Two rounds that reach the bound with a growing table.
C8_Witness ==
    /\ op = "generate" /\ iterations >= 2
    /\ LongestRule(rules) >= 2
    /\ Len(axiom) >= 1
    /\ Len(l_string) = Pow(LongestRule(rules), iterations) * Len(axiom)

---------------------------------------------------------------------------
(* StreetGenerator (src/main.py 61-104) *)

step_size == 8

angle_step == 90

\* math.cos(math.radians(angle)) for a multiple of angle_step
Cos90(angle) ==
    CASE angle % 360 = 0   -> 1
      [] angle % 360 = 90  -> 0
      [] angle % 360 = 180 -> -1
      [] angle % 360 = 270 -> 0

\* math.sin(math.radians(angle)) for a multiple of angle_step
Sin90(angle) ==
    CASE angle % 360 = 0   -> 0
      [] angle % 360 = 90  -> 1
      [] angle % 360 = 180 -> 0
      [] angle % 360 = 270 -> -1

\* 0 <= new_x <= self.width and 0 <= new_y <= self.height
InBounds(w, h, px, py) == 0 <= px /\ px <= w /\ 0 <= py /\ py <= h

\* Street(start=Point(x, y), end=Point(new_x, new_y), ...)
Street(sx, sy, ex, ey) == [start |-> <<sx, sy>>, end |-> <<ex, ey>>]

\* A faulty interpreter: a pop restores the saved state but leaves it on the stack.
TurtleStep_popKeeps(w, h, t, char) ==
    CASE char = "F" ->
            LET new_x == t.x + step_size * Cos90(t.angle)
                new_y == t.y + step_size * Sin90(t.angle)
            IN  [t EXCEPT !.streets = IF InBounds(w, h, new_x, new_y)
                                      THEN Append(@, Street(t.x, t.y, new_x, new_y))
                                      ELSE @,
                          !.x = new_x, !.y = new_y]
      [] char = "+" -> [t EXCEPT !.angle = @ + angle_step]
      [] char = "-" -> [t EXCEPT !.angle = @ - angle_step]
      [] char = "[" -> [t EXCEPT !.stack = Append(@, <<t.x, t.y, t.angle>>)]
      [] char = "]" ->
            IF t.stack # <<>>
            THEN LET top == t.stack[Len(t.stack)]
                 IN  [t EXCEPT !.x = top[1], !.y = top[2], !.angle = top[3]]
            ELSE t
      [] OTHER -> t

\* One pass of the loop body of generate_streets over the symbol char; t holds
\* the locals x, y, angle and stack, and self.streets.
TurtleStep(w, h, t, char) ==
    CASE char = "F" ->
            LET new_x == t.x + step_size * Cos90(t.angle)
                new_y == t.y + step_size * Sin90(t.angle)
            IN  [t EXCEPT !.streets = IF InBounds(w, h, new_x, new_y)
                                      THEN Append(@, Street(t.x, t.y, new_x, new_y))
                                      ELSE @,
                          !.x = new_x, !.y = new_y]
      [] char = "+" -> [t EXCEPT !.angle = @ + angle_step]
      [] char = "-" -> [t EXCEPT !.angle = @ - angle_step]
      [] char = "[" -> [t EXCEPT !.stack = Append(@, <<t.x, t.y, t.angle>>)]
      [] char = "]" ->
            IF t.stack # <<>>
            THEN LET top == t.stack[Len(t.stack)]
                 IN  [t EXCEPT !.x = top[1], !.y = top[2], !.angle = top[3],
                               !.stack = SubSeq(@, 1, Len(@) - 1)]
            ELSE t
      [] OTHER -> t

\* x, y = self.width // 2, self.height // 2; angle = 0; stack = []
TurtleStart(w, h, streets) ==
    [x |-> w \div 2, y |-> h \div 2, angle |-> 0, stack |-> <<>>, streets |-> streets]

\* for char in l_string: ...  over the symbols s[lo..hi] in order, from the
\* turtle state t.  The range is halved so that the evaluation stays shallow on
\* long strings; the steps are applied one after the other, left to right (the
\* test on the state after the first half only has it computed before the
\* second half starts).
RECURSIVE TurtleRun(_, _, _, _, _, _)
TurtleRun(w, h, t, s, lo, hi) ==
    IF lo > hi THEN t
    ELSE IF lo = hi THEN TurtleStep(w, h, t, s[lo])
    ELSE LET mid == (lo + hi) \div 2
             half == TurtleRun(w, h, t, s, lo, mid)
         IN  IF half.angle \in Int THEN TurtleRun(w, h, half, s, mid + 1, hi) ELSE half

\* The list a generate_streets call returns (and leaves in self.streets).
StreetsAfter(w, h, streets, s) ==
    TurtleRun(w, h, TurtleStart(w, h, streets), s, 1, Len(s)).streets

\* StreetGenerator.generate_streets(iterations)
generate_streets(n) ==
    /\ calls < MaxCalls
    /\ pc = "idle"
    /\ LET expansion == LSystemGenerate(axiom, rules, n)
           streets == StreetsAfter(width, height, sg_streets, expansion)
       IN  /\ l_string' = expansion
           /\ sg_streets' = streets
           /\ made' = [made EXCEPT
                          !.streets = SubSeq(streets, Len(sg_streets) + 1, Len(streets))]
    /\ prior' = sg_streets
    /\ iterations' = n
    /\ op' = "generate_streets"
    /\ raised' = "none"
    /\ calls' = calls + 1
    /\ UNCHANGED <<canvasVars, lsystemVars, vg_districts, bg_buildings, cityVars, pc,
                   riverVars, args, vor, given>>

\* The symbols generate_streets tells apart, and one it ignores.
TurtleAlphabet == {"F", "+", "-", "[", "]", "X"}

\* The canvases generators are constructed with: the default and two small ones.
Canvases == {<<100, 100>>, <<20, 20>>, <<20, 36>>}

\* The L-systems a StreetGenerator interprets: the program's tables on the
\* axiom "F", and arbitrary symbol strings (an axiom under a table without rules).
StreetLSystems ==
    {<<<<"F">>, rs>> : rs \in {DefaultRules, ResidentialRules}}
        \cup {<<s, NoRules>> : s \in StringsUpTo(TurtleAlphabet, MaxAxiomLen)}

InitStreets ==
    /\ \E c \in Canvases : width = c[1] /\ height = c[2]
    /\ \E ls \in StreetLSystems : axiom = ls[1] /\ rules = ls[2]
    /\ given = NothingGiven
    /\ Constructed

NextStreets == \E n \in -1 .. MaxIter : generate_streets(n)

SpecStreets == InitStreets /\ [][NextStreets]_vars

---------------------------------------------------------------------------
(* Properties of the street turtle *)

\* The turtle states after each of the symbols str[lo..hi], from the state t.
RECURSIVE TraceRange(_, _, _, _, _, _)
TraceRange(w, h, t, str, lo, hi) ==
    IF lo > hi THEN <<>>
    ELSE IF lo = hi THEN <<TurtleStep(w, h, t, str[lo])>>
    ELSE LET mid == (lo + hi) \div 2
             left == TraceRange(w, h, t, str, lo, mid)
         IN  left \o TraceRange(w, h, left[Len(left)], str, mid + 1, hi)

\* The turtle states of the latest generate_streets call: entry i + 1 is the
\* state after the first i symbols of l_string.
TurtleTrace ==
    LET t0 == TurtleStart(width, height, prior)
    IN  <<t0>> \o TraceRange(width, height, t0, l_string, 1, Len(l_string))

\* The position of the push that a pop at position i answers: the nearest "["
\* before i that no "]" in between answers; 0 when there is none.  k scans
\* backwards, depth counts the pops met whose push has not been met yet.
RECURSIVE OpenPush(_, _, _)
OpenPush(str, k, depth) ==
    IF k = 0 THEN 0
    ELSE IF str[k] = "[" THEN (IF depth = 0 THEN k ELSE OpenPush(str, k - 1, depth - 1))
    ELSE IF str[k] = "]" THEN OpenPush(str, k - 1, depth + 1)
    ELSE OpenPush(str, k - 1, depth)

Pose(t) == <<t.x, t.y, t.angle>>

StreetInCanvas(st) ==
    /\ InBounds(width, height, st.start[1], st.start[2])
    /\ InBounds(width, height, st.end[1], st.end[2])

\* C1: every Street in the list a generate_streets call leaves has its start
\* point and its end point inside [0,width] x [0,height].
C1_StreetsInsideCanvas ==
    \A i \in 1 .. Len(sg_streets) : StreetInCanvas(sg_streets[i])

\* The number of "draw-forward" symbols of a string.
ForwardMoves(str) == Cardinality({i \in 1 .. Len(str) : str[i] = "F"})

\* The scenario of C3: a fresh StreetGenerator on the 100 x 100 canvas, the
\* rule table of __init__, one call with iterations = 1.
C3_Scenario ==
    /\ op = "generate_streets" /\ calls = 1 /\ iterations = 1
    /\ width = 100 /\ height = 100
    /\ axiom = <<"F">> /\ rules = DefaultRules

\* C3 (as stated): in the scenario the expansion is the 9-symbol string
\* F+F-F-F+F, at most 4 forward moves are made and at most 4 Streets returned.
C3_AtMostFourStreets ==
    C3_Scenario =>
        /\ l_string = <<"F", "+", "F", "-", "F", "-", "F", "+", "F">>
        /\ ForwardMoves(l_string) <= 4
        /\ Len(sg_streets) <= 4

\* C3 (amended): in the scenario the expansion is the 9-symbol string
\* F+F-F-F+F, which holds 5 forward moves, and exactly 5 Streets are returned.
C3_FiveStreets ==
    C3_Scenario =>
        /\ l_string = <<"F", "+", "F", "-", "F", "-", "F", "+", "F">>
        /\ ForwardMoves(l_string) = 5
        /\ Len(sg_streets) = 5

C3_Witness == C3_Scenario /\ Len(sg_streets) = 5

\* C9: during a generate_streets call, (a) from every turtle state a push
\* followed at once by a pop leaves position, heading and stack as they were;
\* (b) a pop on a non-empty stack restores the position and heading the turtle
\* had at the most recent unanswered push and leaves the stack as it was before
\* that push; (c) a pop on an empty stack changes nothing, and the stack is
\* empty exactly when no push is unanswered.
C9_PushPop ==
    op = "generate_streets" =>
        LET tr == TurtleTrace
        IN  /\ \A i \in 1 .. Len(tr) :
                  LET t == tr[i]
                      pushed == TurtleStep(width, height, t, "[")
                      popped == TurtleStep(width, height, pushed, "]")
                  IN  /\ Pose(pushed) = Pose(t)
                      /\ Len(pushed.stack) = Len(t.stack) + 1
                      /\ Pose(popped) = Pose(t)
                      /\ popped.stack = t.stack
                      /\ popped.streets = t.streets
            /\ \A i \in 1 .. Len(l_string) :
                  l_string[i] = "]" =>
                      LET before == tr[i]
                          after == tr[i + 1]
                          j == OpenPush(l_string, i - 1, 0)
                      IN  /\ (j = 0) <=> (before.stack = <<>>)
                          /\ j > 0 =>
                                /\ Pose(after) = Pose(tr[j])
                                /\ after.stack = tr[j].stack
                                /\ Len(after.stack) = Len(before.stack) - 1
                                /\ after.streets = before.streets
                          /\ j = 0 => after = before

\* A call whose string holds a pop that brings the turtle back from elsewhere
\* to a push made inside another open push.
C9_Witness ==
    /\ op = "generate_streets"
    /\ LET tr == TurtleTrace
       IN  /\ \E i \in 1 .. Len(l_string) :
                 /\ l_string[i] = "]"
                 /\ OpenPush(l_string, i - 1, 0) > 0
                 /\ Pose(tr[i + 1]) # Pose(tr[i])
                 /\ Len(tr[i].stack) >= 2
           /\ \E i \in 1 .. Len(l_string) - 1 :
                 l_string[i] = "F" /\ l_string[i + 1] = "]"

\* C2: a generate call replaces the prior results of its component: after a
\* generate_streets call the list the generator stores and returns holds
\* exactly the Streets that call created, none of an earlier call.
C2_LatestCallOnly ==
    op = "generate_streets" => sg_streets = made.streets

---------------------------------------------------------------------------
(* VoronoiGenerator (src/main.py 106-123) *)

\* The elements of a set of integers as a sequence, in increasing order.
RECURSIVE SetToSeq(_)
SetToSeq(S) ==
    IF S = {} THEN <<>>
    ELSE LET m == CHOOSE x \in S : \A y \in S : x <= y
         IN  <<m>> \o SetToSeq(S \ {m})

\* The vertices of the diagrams of the model (vor.vertices).
VoronoiVertices == <<<<2, 3>>, <<7, 1>>, <<5, 8>>>>

\* The regions a diagram may list: every choice among its vertex indices
\* (0-based, as in vor.regions) and -1, the mark of a vertex at infinity.
VoronoiRegions(maxRegions) ==
    LET one == {SetToSeq(S) : S \in SUBSET (-1 .. Len(VoronoiVertices) - 1)}
    IN  UNION {[1 .. k -> one] : k \in 1 .. maxRegions}

\* What Voronoi(points) may return for n points: any list of at most maxRegions
\* regions, and for each point the index of its region (vor.point_region).
VoronoiResults(n, maxRegions) ==
    {[vertices |-> VoronoiVertices, regions |-> rs, point_region |-> pr] :
        <<rs, pr>> \in UNION {{<<r, q>> : q \in [1 .. n -> 0 .. Len(r) - 1]} :
                                r \in VoronoiRegions(maxRegions)}}

\* -1 not in region and len(region) > 0
KeepRegion(region) ==
    /\ \A i \in 1 .. Len(region) : region[i] # -1
    /\ Len(region) > 0

\* [Point(vor.vertices[i][0], vor.vertices[i][1]) for i in region]
DistrictPoints(v, region) == [i \in 1 .. Len(region) |-> v.vertices[region[i] + 1]]

\* for region_idx in vor.point_region: ... districts.append(district_points)
\* (from point k on, districts holding what the earlier points gave)
RECURSIVE DistrictsFrom(_, _, _)
DistrictsFrom(v, k, districts) ==
    IF k > Len(v.point_region) THEN districts
    ELSE LET region == v.regions[v.point_region[k] + 1]
         IN  DistrictsFrom(v, k + 1,
                           IF KeepRegion(region)
                           THEN Append(districts, DistrictPoints(v, region))
                           ELSE districts)

\* VoronoiGenerator.generate_districts(num_points), Voronoi(points) returning v
DistrictsReturned(v) == DistrictsFrom(v, 1, <<>>)

\* The ways the library calls of generate_districts may end.  A negative
\* num_points makes np.random.uniform raise; which point sets Qhull rejects is
\* the library's matter, so for the others both outcomes are allowed.
DistrictOutcomes(n, maxRegions) ==
    IF n < 0 THEN {[error |-> "ValueError", vor |-> NoVor]}
    ELSE {[error |-> "QhullError", vor |-> NoVor]}
            \cup {[error |-> "none", vor |-> v] : v \in VoronoiResults(n, maxRegions)}

\* VoronoiGenerator.generate_districts(num_points)
generate_districts(n) ==
    /\ pc = "idle"
    /\ \E out \in DistrictOutcomes(n, MaxRegions) :
          /\ raised' = out.error
          /\ vor' = out.vor
          /\ IF out.error = "none"
             THEN /\ vg_districts' = DistrictsReturned(out.vor)
                  /\ made' = [made EXCEPT !.districts = DistrictsReturned(out.vor)]
             ELSE UNCHANGED <<vg_districts, made>>
    /\ args' = [num_points |-> n]
    /\ op' = "generate_districts"
    /\ UNCHANGED <<canvasVars, lsystemVars, sg_streets, bg_buildings, cityVars, pc,
                   riverVars, iterations, l_string, prior, given, calls>>

InitDistricts ==
    /\ width = 100 /\ height = 100
    /\ axiom = <<"F">> /\ rules = DefaultRules
    /\ given = NothingGiven
    /\ Constructed

\* One call on the fresh generator: a call reads nothing an earlier call left.
NextDistricts ==
    /\ op = "none"
    /\ \E n \in -1 .. MaxPoints : generate_districts(n)

SpecDistricts == InitDistricts /\ [][NextDistricts]_vars

---------------------------------------------------------------------------
(* Properties of generate_districts *)

\* The region of point k of the latest diagram.
RegionOfPoint(k) == vor.regions[vor.point_region[k] + 1]

\* A region is bounded and has at least 3 vertices.
ProperRegion(region) ==
    /\ -1 \notin {region[i] : i \in 1 .. Len(region)}
    /\ Len(region) >= 3

\* C5: a generate_districts call that returns includes the region of a point
\* if and only if the region holds no -1 and has at least 3 vertices: the
\* districts are the polygons of exactly those points, in order, so every
\* District has at least 3 vertices.
C5_FilterIff ==
    (op = "generate_districts" /\ raised = "none") =>
        LET kept == SetToSeq({k \in 1 .. Len(vor.point_region) :
                                ProperRegion(RegionOfPoint(k))})
        IN  /\ Len(vg_districts) = Len(kept)
            /\ \A j \in 1 .. Len(kept) :
                  vg_districts[j] = DistrictPoints(vor, RegionOfPoint(kept[j]))
            /\ \A j \in 1 .. Len(vg_districts) : Len(vg_districts[j]) >= 3

---------------------------------------------------------------------------
(* BuildingGenerator (src/main.py 178-220) *)

(* A Building is represented by its position before the random offset is     *)
(* added: a fraction <<nx, ny, d>> standing for the point (nx/d, ny/d).      *)

\* The largest r with r * r <= n.
ISqrt(n) == CHOOSE r \in 0 .. n : r * r <= n /\ n < (r + 1) * (r + 1)

\* (self.x - other.x)**2 + (self.y - other.y)**2, the square of distance_to
Distance2(p, q) == (p[1] - q[1]) * (p[1] - q[1]) + (p[2] - q[2]) * (p[2] - q[2])

\* A faulty count: the length is rounded up.
NumStreetBuildings_roundUp(st) ==
    (ISqrt(Distance2(st.start, st.end)) + 2) \div 3

\* int(street_length / 3): the floor of a third of the square root
NumStreetBuildings(st) == ISqrt(Distance2(st.start, st.end)) \div 3

\* A faulty parameter: the spacing divides by the count, not by count - 1.
StreetParameter_byCount(i, n) == <<i, Max2(1, n)>>

\* t = i / max(1, num_street_buildings - 1), as the fraction <<numerator, denominator>>
StreetParameter(i, n) == <<i, Max2(1, n - 1)>>

\* pos_x = start.x + t * (end.x - start.x); pos_y likewise
StreetPosition(st, t) ==
    <<st.start[1] * t[2] + t[1] * (st.end[1] - st.start[1]),
      st.start[2] * t[2] + t[1] * (st.end[2] - st.start[2]),
      t[2]>>

\* Building(position=Point(pos_x + offset_x, pos_y + offset_y), ...)
Building(position) == [position |-> position]

\* for i in range(num_street_buildings): ... buildings.append(building)
BuildingsOfStreet(st) ==
    LET n == NumStreetBuildings(st)
    IN  [k \in 1 .. n |-> Building(StreetPosition(st, StreetParameter(k - 1, n)))]

\* for street in streets: ...  (from street k on)
RECURSIVE StreetBuildingsFrom(_, _)
StreetBuildingsFrom(streets, k) ==
    IF k > Len(streets) THEN <<>>
    ELSE BuildingsOfStreet(streets[k]) \o StreetBuildingsFrom(streets, k + 1)

RECURSIVE SumOf(_, _, _)
SumOf(points, coord, k) ==
    IF k > Len(points) THEN 0 ELSE points[k][coord] + SumOf(points, coord, k + 1)

\* center_x = sum(p.x for p in district) / len(district); center_y likewise
Centroid(district) == <<SumOf(district, 1, 1), SumOf(district, 2, 1), Len(district)>>

MinDistrictBuildings == 5

MaxDistrictBuildings == 15

\* The districts the second loop does not skip (len(district) >= 3).
Built(districts) == {k \in 1 .. Len(districts) : Len(districts[k]) >= 3}

\* for district in districts: ...  (from district k on); counts[k] is the
\* number random.randint(5, 15) gave for district k
RECURSIVE DistrictBuildingsFrom(_, _, _)
DistrictBuildingsFrom(districts, counts, k) ==
    IF k > Len(districts) THEN <<>>
    ELSE (IF Len(districts[k]) < 3 THEN <<>>
          ELSE [j \in 1 .. counts[k] |-> Building(Centroid(districts[k]))])
            \o DistrictBuildingsFrom(districts, counts, k + 1)

\* The list generate_buildings(streets, districts, num_buildings) builds.
BuildingsReturned(streets, districts, counts) ==
    StreetBuildingsFrom(streets, 1) \o DistrictBuildingsFrom(districts, counts, 1)

\* BuildingGenerator.generate_buildings(streets, districts, num_buildings);
\* num_buildings is not read.
generate_buildings(streets, districts, num_buildings) ==
    /\ pc = "idle"
    /\ \E counts \in [Built(districts) -> MinDistrictBuildings .. MaxDistrictBuildings] :
          /\ bg_buildings' = BuildingsReturned(streets, districts, counts)
          /\ made' = [made EXCEPT
                         !.buildings = BuildingsReturned(streets, districts, counts)]
    /\ args' = [streets |-> streets, districts |-> districts,
                num_buildings |-> num_buildings]
    /\ op' = "generate_buildings"
    /\ raised' = "none"
    /\ UNCHANGED <<canvasVars, lsystemVars, sg_streets, vg_districts, cityVars, pc,
                   riverVars, iterations, l_string, prior, vor, given, calls>>

\* city_config.NUM_BUILDINGS, the num_buildings of main()
NUM_BUILDINGS == 200

\* The streets handed to generate_buildings: from (0, 0) to points at distances
\* around the multiples of 3, a street of the generator, and one of length 0.
StreetInputs ==
    {Street(0, 0, e[1], e[2]) :
        e \in {<<2, 0>>, <<3, 0>>, <<0, 6>>, <<9, 0>>, <<6, 7>>, <<9, 9>>}}
        \cup {Street(50, 50, 58, 50), Street(4, 4, 4, 4)}

\* The districts handed to generate_buildings: a triangle and a two-point list.
DistrictInputs == {<<<<2, 3>>, <<7, 1>>, <<5, 8>>>>, <<<<2, 3>>, <<7, 1>>>>}

ListsUpTo(S, n) == UNION {[1 .. k -> S] : k \in 0 .. n}

InitBuildings ==
    /\ width = 100 /\ height = 100
    /\ axiom = <<"F">> /\ rules = DefaultRules
    /\ given \in [streets : ListsUpTo(StreetInputs, MaxStreets),
                   districts : ListsUpTo(DistrictInputs, MaxDistricts)]
    /\ Constructed

\* One call on the fresh generator: a call reads nothing an earlier call left.
NextBuildings ==
    /\ op = "none"
    /\ generate_buildings(given.streets, given.districts, NUM_BUILDINGS)

SpecBuildings == InitBuildings /\ [][NextBuildings]_vars

---------------------------------------------------------------------------
(* Properties of generate_buildings *)

\* The number n with 3n <= L < 3(n + 1) for the length L of a street, found
\* from the square of L.
FrontageCount(st) ==
    CHOOSE n \in 0 .. Distance2(st.start, st.end) :
        /\ 9 * n * n <= Distance2(st.start, st.end)
        /\ Distance2(st.start, st.end) < 9 * (n + 1) * (n + 1)

\* The number of buildings that stand before those of street k in the list.
RECURSIVE FrontageBefore(_, _)
FrontageBefore(streets, k) ==
    IF k <= 1 THEN 0
    ELSE FrontageBefore(streets, k - 1) + FrontageCount(streets[k - 1])

\* Building number i (from 0) of n along the street st stands at the fraction
\* i/(n-1) of the way from start to end (at the start when n = 1); the position
\* is the point (b[1]/b[3], b[2]/b[3]).
AtFraction(b, st, i, n) ==
    /\ b[3] > 0
    /\ IF n = 1
       THEN /\ b[1] = st.start[1] * b[3]
            /\ b[2] = st.start[2] * b[3]
       ELSE /\ (n - 1) * (b[1] - st.start[1] * b[3]) = i * (st.end[1] - st.start[1]) * b[3]
            /\ (n - 1) * (b[2] - st.start[2] * b[3]) = i * (st.end[2] - st.start[2]) * b[3]

\* C10: generate_buildings creates for every street of length L exactly
\* floor(L/3) street-frontage buildings, none when L < 3; building i (from 0)
\* of count stands, before the random offset, at start + t * (end - start) with
\* t = i/(count-1) for count > 1 and t = 0 for count = 1; the buildings that
\* follow those of the streets stand at the vertex mean of a district.
C10_StreetFrontage ==
    op = "generate_buildings" =>
        LET streets == args.streets
            total == FrontageBefore(streets, Len(streets) + 1)
        IN  /\ total <= Len(bg_buildings)
            /\ Built(args.districts) = {} => Len(bg_buildings) = total
            /\ \A k \in 1 .. Len(streets) :
                  LET n == FrontageCount(streets[k])
                  IN  /\ Distance2(streets[k].start, streets[k].end) < 9 => n = 0
                      /\ \A i \in 0 .. n - 1 :
                            AtFraction(bg_buildings[FrontageBefore(streets, k) + i + 1].position,
                                       streets[k], i, n)
            /\ \A j \in total + 1 .. Len(bg_buildings) :
                  \E k \in Built(args.districts) :
                      bg_buildings[j].position = Centroid(args.districts[k])

\* A call given a street with a building strictly between its ends and a
\* street with a single building.
C10_Witness ==
    /\ op = "generate_buildings"
    /\ \E k \in 1 .. Len(args.streets) : FrontageCount(args.streets[k]) >= 3
    /\ \E k \in 1 .. Len(args.streets) : FrontageCount(args.streets[k]) = 1
    /\ Len(bg_buildings) >= 4

---------------------------------------------------------------------------
(* CellularAutomaton.generate_rivers (src/main.py 131-160) *)

(* The call is followed step by step.  A River is represented by the last    *)
(* point and the number of points of its point list.                         *)

MinRiverSteps == 20

MaxRiverSteps == 50

\* The spawn points of one river, or none when random.randint raises on an
\* empty range: on a side edge (start_x = 0 or width - 1, start_y any row), or
\* on the top or bottom edge (start_x any column, start_y = 0 or height - 1).
SpawnPoints(w, h, edge) ==
    IF edge = "side"
    THEN {<<sx, sy>> : sx \in {0, w - 1}, sy \in 0 .. h - 1}
    ELSE {<<sx, sy>> : sx \in 0 .. w - 1, sy \in {0, h - 1}}

\* random.choice([0, 1]) if current < size // 2 else random.choice([-1, 0])
Directions(current, size) == IF current < size \div 2 THEN {0, 1} ELSE {-1, 0}

\* max(0, min(size - 1, current + direction))
Clamp(current, direction, size) == Max2(0, Min2(size - 1, current + direction))

\* A faulty step: the new position is appended even when it is the old one.
WalkStep_alwaysAppend(w, h, r, dx, dy) ==
    LET new == <<Clamp(r.cur[1], dx, w), Clamp(r.cur[2], dy, h)>>
    IN  [r EXCEPT !.npoints = @ + 1,
                  !.cur = new,
                  !.moved = IF new # r.cur THEN @ + 1 ELSE @,
                  !.steps = @ - 1]

\* One pass of the walk loop with the directions dx, dy drawn.
WalkStep(w, h, r, dx, dy) ==
    LET new == <<Clamp(r.cur[1], dx, w), Clamp(r.cur[2], dy, h)>>
    IN  IF new # r.cur
        THEN [r EXCEPT !.npoints = @ + 1, !.cur = new, !.moved = @ + 1, !.steps = @ - 1]
        ELSE [r EXCEPT !.steps = @ - 1]

\* River(points=river_points, ...)
River(r) == [last |-> r.cur, npoints |-> r.npoints]

\* The call begins: rivers = []; for _ in range(num_rivers)
BeginRivers(n, caller) == [NoRivers EXCEPT !.left = Max2(n, 0), !.caller = caller]

\* CellularAutomaton.generate_rivers(num_rivers) is called
generate_rivers(n) ==
    /\ pc = "idle"
    /\ pc' = "rivers"
    /\ rv' = BeginRivers(n, "direct")
    /\ args' = [num_rivers |-> n]
    /\ op' = "generate_rivers"
    /\ raised' = "none"
    /\ UNCHANGED <<canvasVars, lsystemVars, sg_streets, vg_districts, bg_buildings,
                   cityVars, iterations, l_string, prior, vor, made, given, calls>>

\* The next river is begun: its spawn point and the number of its steps are
\* drawn; random.randint raises ValueError when the edge has no cell.
RiverSpawn ==
    /\ pc = "rivers" /\ ~rv.walking /\ rv.left > 0
    /\ \E edge \in {"side", "top"} :
          IF (edge = "side" /\ height - 1 < 0) \/ (edge = "top" /\ width - 1 < 0)
          THEN /\ raised' = "ValueError"
               /\ pc' = "idle"
               /\ rv' = NoRivers
          ELSE /\ \E p \in SpawnPoints(width, height, edge),
                     n \in MinRiverSteps .. MaxRiverSteps :
                      rv' = [rv EXCEPT !.walking = TRUE, !.cur = p, !.npoints = 1,
                                       !.steps = n, !.moved = 0]
               /\ UNCHANGED <<raised, pc>>
    /\ UNCHANGED <<canvasVars, lsystemVars, sg_streets, vg_districts, bg_buildings,
                   cityVars, args, op, iterations, l_string, prior, vor, made, given,
                   calls>>

\* One step of the walk.
RiverStep ==
    /\ pc = "rivers" /\ rv.walking /\ rv.steps > 0
    /\ \E dx \in Directions(rv.cur[1], width), dy \in Directions(rv.cur[2], height) :
          rv' = WalkStep(width, height, rv, dx, dy)
    /\ UNCHANGED <<canvasVars, lsystemVars, sg_streets, vg_districts, bg_buildings,
                   cityVars, pc, args, raised, op, iterations, l_string, prior, vor,
                   made, given, calls>>

\* The walk is over: rivers.append(River(...))
RiverAppend ==
    /\ pc = "rivers" /\ rv.walking /\ rv.steps = 0
    /\ rv' = [rv EXCEPT !.rivers = Append(@, River(rv)), !.walking = FALSE,
                        !.left = @ - 1]
    /\ UNCHANGED <<canvasVars, lsystemVars, sg_streets, vg_districts, bg_buildings,
                   cityVars, pc, args, raised, op, iterations, l_string, prior, vor,
                   made, given, calls>>

\* return rivers, to a direct caller
RiversReturn ==
    /\ pc = "rivers" /\ ~rv.walking /\ rv.left = 0 /\ rv.caller = "direct"
    /\ made' = [made EXCEPT !.rivers = rv.rivers]
    /\ rv' = NoRivers
    /\ pc' = "idle"
    /\ UNCHANGED <<canvasVars, lsystemVars, sg_streets, vg_districts, bg_buildings,
                   cityVars, args, raised, op, iterations, l_string, prior, vor, given,
                   calls>>

\* The canvases of the river walks.
RiverCanvases == {<<1, 1>>, <<2, 1>>, <<1, 2>>, <<2, 2>>}

InitRivers ==
    /\ \E c \in RiverCanvases : width = c[1] /\ height = c[2]
    /\ axiom = <<"F">> /\ rules = DefaultRules
    /\ given = NothingGiven
    /\ Constructed

NextRivers ==
    \/ op = "none" /\ \E n \in -1 .. MaxRivers : generate_rivers(n)
    \/ RiverSpawn
    \/ RiverStep
    \/ RiverAppend
    \/ RiversReturn

SpecRivers == InitRivers /\ [][NextRivers]_vars

---------------------------------------------------------------------------
(* Properties of generate_rivers *)

\* The rivers the running call holds and the rivers the last call returned.
RiversMade == {rv.rivers[k] : k \in DOMAIN rv.rivers} \cup
              {made.rivers[k] : k \in DOMAIN made.rivers}

\* C6: a River has between 1 and 51 points: the spawn point, then one point
\* for each of the 20 to 50 walk steps that changed the position.
C6_RiverPoints ==
    /\ \A r \in RiversMade : 1 <= r.npoints /\ r.npoints <= 1 + MaxRiverSteps
    /\ rv.walking =>
          /\ rv.npoints = 1 + rv.moved
          /\ rv.npoints + rv.steps <= 1 + MaxRiverSteps
          /\ rv.steps <= MaxRiverSteps

\* A call has returned a river of 51 points: each of its 50 steps moved.
C6_Witness ==
    /\ op = "generate_rivers" /\ pc = "idle" /\ Len(made.rivers) > 0
    /\ made.rivers[1].npoints = 1 + MaxRiverSteps

---------------------------------------------------------------------------
(* CellularAutomaton.generate_mountains (src/main.py 162-176) *)

(* A Mountain is represented by its centre; of the centres random.uniform    *)
(* may draw, the two corners of the canvas stand for all.                    *)

MountainCentres(w, h) == {<<0, 0>>, <<w, h>>}

\* Mountain(center=center, radius=radius, height=height)
Mountain(center) == [center |-> center]

\* The lists generate_mountains(num_mountains) may return: one Mountain for
\* each pass of range(num_mountains).
MountainsReturned(w, h, n) ==
    {[k \in 1 .. Max2(n, 0) |-> Mountain(c[k])] :
        c \in [1 .. Max2(n, 0) -> MountainCentres(w, h)]}

---------------------------------------------------------------------------
(* CityGenerator (src/main.py 222-256) *)

(* generate_city is followed call by call: pc names the component it calls   *)
(* next, ran the components it has called, and an exception a component      *)
(* raises ends it.  Construction builds the four generators and the five     *)
(* empty lists and examines neither width nor height; np.zeros (line 129)    *)
(* rejects a negative one, so the canvases of the model are not negative.    *)

\* CityGenerator.generate_city(street_iterations, num_districts, num_rivers,
\* num_mountains, num_buildings) is entered; it examines no argument.
generate_city(a) ==
    /\ pc = "idle"
    /\ pc' = "city_streets"
    /\ args' = a
    /\ op' = "generate_city"
    /\ raised' = "none"
    /\ ran' = {}
    /\ UNCHANGED <<canvasVars, lsystemVars, sg_streets, vg_districts, bg_buildings,
                   city, riverVars, iterations, l_string, prior, vor, made, given,
                   calls>>

\* self.streets = self.street_generator.generate_streets(street_iterations)
CityStreets ==
    /\ pc = "city_streets"
    /\ LET expansion == LSystemGenerate(axiom, rules, args.street_iterations)
           streets == StreetsAfter(width, height, sg_streets, expansion)
       IN  /\ l_string' = expansion
           /\ sg_streets' = streets
           /\ city' = [city EXCEPT !.streets = streets]
           /\ made' = [made EXCEPT
                          !.streets = SubSeq(streets, Len(sg_streets) + 1, Len(streets))]
    /\ prior' = sg_streets
    /\ iterations' = args.street_iterations
    /\ ran' = ran \cup {"streets"}
    /\ pc' = "city_districts"
    /\ UNCHANGED <<canvasVars, lsystemVars, vg_districts, bg_buildings, riverVars,
                   args, raised, op, vor, given, calls>>

\* self.districts = self.voronoi_generator.generate_districts(num_districts)
CityDistricts ==
    /\ pc = "city_districts"
    /\ \E out \in DistrictOutcomes(args.num_districts, 1) :
          /\ raised' = out.error
          /\ vor' = out.vor
          /\ IF out.error = "none"
             THEN /\ vg_districts' = DistrictsReturned(out.vor)
                  /\ city' = [city EXCEPT !.districts = DistrictsReturned(out.vor)]
                  /\ made' = [made EXCEPT !.districts = DistrictsReturned(out.vor)]
                  /\ pc' = "city_rivers"
             ELSE /\ pc' = "idle"
                  /\ UNCHANGED <<vg_districts, city, made>>
    /\ ran' = ran \cup {"districts"}
    /\ UNCHANGED <<canvasVars, lsystemVars, sg_streets, bg_buildings, riverVars, args,
                   op, iterations, l_string, prior, given, calls>>

\* self.cellular_automaton.generate_rivers(num_rivers) is called
CityRivers ==
    /\ pc = "city_rivers"
    /\ rv' = BeginRivers(args.num_rivers, "city")
    /\ ran' = ran \cup {"rivers"}
    /\ pc' = "rivers"
    /\ UNCHANGED <<canvasVars, lsystemVars, sg_streets, vg_districts, bg_buildings,
                   city, args, raised, op, iterations, l_string, prior, vor, made,
                   given, calls>>

\* self.rivers = <the list generate_rivers returns>
CityRiversReturn ==
    /\ pc = "rivers" /\ ~rv.walking /\ rv.left = 0 /\ rv.caller = "city"
    /\ city' = [city EXCEPT !.rivers = rv.rivers]
    /\ made' = [made EXCEPT !.rivers = rv.rivers]
    /\ rv' = NoRivers
    /\ pc' = "city_mountains"
    /\ UNCHANGED <<canvasVars, lsystemVars, sg_streets, vg_districts, bg_buildings,
                   ran, args, raised, op, iterations, l_string, prior, vor, given,
                   calls>>

\* self.mountains = self.cellular_automaton.generate_mountains(num_mountains)
CityMountains ==
    /\ pc = "city_mountains"
    /\ \E mountains \in MountainsReturned(width, height, args.num_mountains) :
          city' = [city EXCEPT !.mountains = mountains]
    /\ ran' = ran \cup {"mountains"}
    /\ pc' = "city_buildings"
    /\ UNCHANGED <<canvasVars, lsystemVars, sg_streets, vg_districts, bg_buildings,
                   riverVars, args, raised, op, iterations, l_string, prior, vor, made,
                   given, calls>>

\* self.buildings = self.building_generator.generate_buildings(
\*     self.streets, self.districts, num_buildings)
CityBuildings ==
    /\ pc = "city_buildings"
    /\ \E counts \in [Built(city.districts) ->
                        MinDistrictBuildings .. MaxDistrictBuildings] :
          LET buildings == BuildingsReturned(city.streets, city.districts, counts)
          IN  /\ bg_buildings' = buildings
              /\ city' = [city EXCEPT !.buildings = buildings]
              /\ made' = [made EXCEPT !.buildings = buildings]
    /\ ran' = ran \cup {"buildings"}
    /\ pc' = "idle"
    /\ UNCHANGED <<canvasVars, lsystemVars, sg_streets, vg_districts, riverVars, args,
                   raised, op, iterations, l_string, prior, vor, given, calls>>

\* The canvases of the cities: that of city_config, the smallest, an empty one.
CityCanvases == {<<100, 100>>, <<1, 1>>, <<0, 0>>}

\* The arguments of generate_city: each either negative or small.
CityArguments ==
    [street_iterations : {-1, 1}, num_districts : {-1, 1}, num_rivers : {-1, 0, 1},
     num_mountains : {-1, 1}, num_buildings : {-1, NUM_BUILDINGS}]

\* The walks of rivers are followed on the canvases of at most one cell.
InitCity ==
    /\ \E c \in CityCanvases : width = c[1] /\ height = c[2]
    /\ axiom = <<"F">> /\ rules = DefaultRules
    /\ given \in CityArguments
    /\ width > 1 => given.num_rivers <= 0
    /\ Constructed

\* One generate_city call on the fresh CityGenerator.
NextCity ==
    \/ op = "none" /\ generate_city(given)
    \/ CityStreets
    \/ CityDistricts
    \/ CityRivers
    \/ RiverSpawn
    \/ RiverStep
    \/ RiverAppend
    \/ CityRiversReturn
    \/ CityMountains
    \/ CityBuildings

SpecCity == InitCity /\ [][NextCity]_vars

---------------------------------------------------------------------------
(* Properties of generate_city *)

\* The configuration is malformed: a canvas dimension is not positive or an
\* argument of the running call is negative.
Malformed ==
    \/ width <= 0
    \/ height <= 0
    \/ args.street_iterations < 0
    \/ args.num_districts < 0
    \/ args.num_rivers < 0
    \/ args.num_mountains < 0
    \/ args.num_buildings < 0

\* C7: a generate_city call under a malformed configuration fails with a
\* validation error at its entry: it calls no component generator, it changes
\* no result collection, and it ends with an error raised.
C7_FailFast ==
    (op = "generate_city" /\ Malformed) =>
        /\ ran = {}
        /\ city = EmptyCity
        /\ pc = "idle" => raised # "none"

=============================================================================
